---------------------------- MODULE Spec2Model ----------------------------
(***************************************************************************)
(* A model of sort-photos.py: the timestamp resolver, the name and path    *)
(* derivation, the collision resolver, the content hash cache and the      *)
(* mover.                                                                   *)
(*                                                                         *)
(* Strings are sequences of one-character strings, so that prefix tests,   *)
(* splitting, stripping and formatting are computed character by           *)
(* character as the Python code computes them.  A datetime is a record     *)
(* [year, month, day, hour, minute, second].                               *)
(***************************************************************************)
EXTENDS Integers, Sequences, FiniteSets, TLC

VARIABLES
    files,      \* the filesystem's regular files: path -> [id, exif, probe, mtime]
    dirs,       \* the filesystem's directories: a set of paths
    ncalls,     \* the number of move_file calls made so far
    last,       \* what the last move_file call did
    prev,       \* what the call before it did
    before,     \* `files` as it was when the last call started
    nameIn,     \* the arguments of filename_from_datetime: [dt, path]
    nameOut,    \* its result and the result of deriving again from the result
    dateIn,     \* the file creation_date is applied to: [path, exif, probe, mtime]
    dateOut,    \* the outcome of creation_date
    folder,     \* the target folder's files: basename -> content
    hashes,     \* HashCache.hashes[target_folder]: [set, byname]
    seen,       \* the contents that were in the folder at some has_file query
    answer,     \* the last has_file query: [asked, content, result]
    nqueries    \* the number of steps taken on the hash cache

vars == <<files, dirs, ncalls, last, prev, before, nameIn, nameOut,
          dateIn, dateOut, folder, hashes, seen, answer, nqueries>>

moverVars == <<files, dirs, ncalls, last, prev, before>>
nameVars  == <<nameIn, nameOut>>
dateVars  == <<dateIn, dateOut>>
hashVars  == <<folder, hashes, seen, answer, nqueries>>

-----------------------------------------------------------------------------
(* Characters and Python's str methods.                                    *)

DigitChars == <<"0", "1", "2", "3", "4", "5", "6", "7", "8", "9">>

UpperChars == <<"A", "B", "C", "D", "E", "F", "G", "H", "I", "J", "K", "L", "M",
                "N", "O", "P", "Q", "R", "S", "T", "U", "V", "W", "X", "Y", "Z">>

LowerChars == <<"a", "b", "c", "d", "e", "f", "g", "h", "i", "j", "k", "l", "m",
                "n", "o", "p", "q", "r", "s", "t", "u", "v", "w", "x", "y", "z">>

Range(s) == {s[i] : i \in DOMAIN s}

Digits == Range(DigitChars)

Alnum == Digits \cup Range(UpperChars) \cup Range(LowerChars)

\* str.lower() on one character
lower_char(c) ==
    IF c \in Range(UpperChars)
    THEN LowerChars[CHOOSE i \in DOMAIN UpperChars : UpperChars[i] = c]
    ELSE c

\* str.lower()
str_lower(s) == [i \in DOMAIN s |-> lower_char(s[i])]

\* str.startswith(prefix)
str_startswith(s, prefix) ==
    /\ Len(prefix) <= Len(s)
    /\ SubSeq(s, 1, Len(prefix)) = prefix

\* str.endswith(suffix)
str_endswith(s, suffix) ==
    /\ Len(suffix) <= Len(s)
    /\ SubSeq(s, Len(s) - Len(suffix) + 1, Len(s)) = suffix

\* the places (0-based, as in Python) where `sub` occurs in `s`
occurrences(s, sub) ==
    {i \in 0..(Len(s) - Len(sub)) : SubSeq(s, i + 1, i + Len(sub)) = sub}

\* str.find(sub): the lowest 0-based index of `sub` in `s`, or -1
str_find(s, sub) ==
    IF occurrences(s, sub) = {} THEN -1
    ELSE CHOOSE i \in occurrences(s, sub) : \A j \in occurrences(s, sub) : i <= j

\* str.rfind(c) for one character, 1-based; 0 when absent (Python's -1)
str_rfind1(s, c) ==
    IF \E i \in DOMAIN s : s[i] = c
    THEN CHOOSE i \in DOMAIN s : s[i] = c /\ \A j \in DOMAIN s : s[j] = c => j <= i
    ELSE 0

\* s[:-n]
drop_last(s, n) == SubSeq(s, 1, Len(s) - n)

\* re.sub("[^...]", "", s): keep the characters of `keep`
re_sub_keep(s, keep) == SelectSeq(s, LAMBDA c : c \in keep)

\* '%i' % n for n >= 0
RECURSIVE int_to_str(_)
int_to_str(n) ==
    IF n < 10 THEN <<DigitChars[n + 1]>>
    ELSE int_to_str(n \div 10) \o <<DigitChars[(n % 10) + 1]>>

\* a number zero-padded to `width` digits, as strftime's %Y %m %d %H %M %S
RECURSIVE zero_pad(_, _)
zero_pad(n, width) ==
    IF Len(int_to_str(n)) >= width THEN int_to_str(n)
    ELSE <<"0">> \o zero_pad(n, width - 1)

\* the value of one decimal digit
digit_value(c) == (CHOOSE i \in DOMAIN DigitChars : DigitChars[i] = c) - 1

\* int(s) for a non-empty string of decimal digits
RECURSIVE str_to_int(_)
str_to_int(s) ==
    IF Len(s) = 1 THEN digit_value(s[1])
    ELSE 10 * str_to_int(drop_last(s, 1)) + digit_value(s[Len(s)])

-----------------------------------------------------------------------------
(* posixpath                                                                *)

\* os.path.basename
os_path_basename(p) == SubSeq(p, str_rfind1(p, "/") + 1, Len(p))

\* os.path.dirname
RECURSIVE rstrip_sep(_)
rstrip_sep(s) ==
    IF s # <<>> /\ s[Len(s)] = "/" THEN rstrip_sep(drop_last(s, 1)) ELSE s

os_path_dirname(p) ==
    LET head == SubSeq(p, 1, str_rfind1(p, "/"))
    IN  IF head # <<>> /\ Range(head) # {"/"} THEN rstrip_sep(head) ELSE head

\* os.path.splitext: the last dot of the last component splits, unless only
\* dots come before it in that component
os_path_splitext(p) ==
    LET sepIndex == str_rfind1(p, "/")
        dotIndex == str_rfind1(p, ".")
    IN  IF /\ dotIndex > sepIndex
           /\ \E k \in (sepIndex + 1)..(dotIndex - 1) : p[k] # "."
        THEN <<SubSeq(p, 1, dotIndex - 1), SubSeq(p, dotIndex, Len(p))>>
        ELSE <<p, <<>>>>

\* os.path.join(a, b)
os_path_join(a, b) ==
    IF str_startswith(b, <<"/">>) THEN b
    ELSE IF a = <<>> \/ str_endswith(a, <<"/">>) THEN a \o b
    ELSE a \o <<"/">> \o b

\* every proper ancestor directory of a path, the root "/" left out
ancestors(p) ==
    {SubSeq(p, 1, i - 1) : i \in {j \in 2..Len(p) : p[j] = "/"}}

-----------------------------------------------------------------------------
(* Name and path derivation.                                                *)

\* basename_from_datetime: dt.strftime('%Y-%m-%d_%H.%M.%S')
basename_from_datetime(dt) ==
    zero_pad(dt.year, 4) \o <<"-">> \o zero_pad(dt.month, 2) \o <<"-">>
        \o zero_pad(dt.day, 2) \o <<"_">> \o zero_pad(dt.hour, 2) \o <<".">>
        \o zero_pad(dt.minute, 2) \o <<".">> \o zero_pad(dt.second, 2)

\* folder_from_datetime: dt.strftime('%Y' + os.sep + '%Y-%m')
folder_from_datetime(dt) ==
    zero_pad(dt.year, 4) \o <<"/">> \o zero_pad(dt.year, 4) \o <<"-">>
        \o zero_pad(dt.month, 2)

\* re.search(r"20[0-9]{12}", s)
re_search_20_12digits(s) ==
    \E i \in 1..(Len(s) - 13) :
        /\ s[i] = "2"
        /\ s[i + 1] = "0"
        /\ \A k \in (i + 2)..(i + 13) : s[k] \in Digits

\* filename_has_14digit: the name stripped to letters and digits, or None
\* (here the empty string, which Python also takes as false)
filename_has_14digit(basename) ==
    IF /\ str_startswith(re_sub_keep(basename, Digits), <<"2", "0">>)
       /\ re_search_20_12digits(re_sub_keep(basename, Alnum))
    THEN re_sub_keep(basename, Alnum)
    ELSE <<>>

\* the branches of filename_from_datetime taken in the other order: the
\* embedded-timestamp rule before the canonical-prefix rule
name_from_parts_rule2_first(filename, ext, alfdigit_name, base) ==
    IF alfdigit_name # <<>>
    THEN base \o <<"_", "_">> \o alfdigit_name \o str_lower(ext)
    ELSE IF str_find(filename, base) = 0
    THEN filename \o str_lower(ext)
    ELSE base \o <<"_">> \o filename \o str_lower(ext)

\* the branches of filename_from_datetime, on the values of its locals
name_from_parts(filename, ext, alfdigit_name, base) ==
    IF str_find(filename, base) = 0
    THEN filename \o str_lower(ext)
    ELSE IF alfdigit_name # <<>>
    THEN base \o <<"_", "_">> \o alfdigit_name \o str_lower(ext)
    ELSE base \o <<"_">> \o filename \o str_lower(ext)

\* the locals of filename_from_datetime, from os.path.splitext(basename)
name_from_split(split, base) ==
    name_from_parts(split[1], split[2], filename_has_14digit(split[1]), base)

\* filename_from_datetime
filename_from_datetime(dt, path) ==
    name_from_split(os_path_splitext(os_path_basename(path)),
                    basename_from_datetime(dt))

\* path_from_datetime
path_from_datetime(root_folder, dt, path) ==
    os_path_join(os_path_join(root_folder, folder_from_datetime(dt)),
                 filename_from_datetime(dt, path))

-----------------------------------------------------------------------------
(* The timestamp resolver.                                                  *)

DT(y, mo, d, h, mi, s) ==
    [year |-> y, month |-> mo, day |-> d, hour |-> h, minute |-> mi, second |-> s]

NoDT == DT(0, 0, 0, 0, 0, 0)

\* the outcome of a resolver call: a datetime, None, or an exception
Value(dt)  == [kind |-> "value", dt |-> dt,   exc |-> ""]
None       == [kind |-> "none",  dt |-> NoDT, exc |-> ""]
Raise(exc) == [kind |-> "raise", dt |-> NoDT, exc |-> exc]

\* re.split(':| ', ts)
RECURSIVE re_split(_)
re_split(ts) ==
    LET seps == {i \in DOMAIN ts : ts[i] \in {":", " "}}
    IN  IF seps = {} THEN <<ts>>
        ELSE LET i == CHOOSE k \in seps : \A j \in seps : k <= j
             IN  <<SubSeq(ts, 1, i - 1)>> \o re_split(SubSeq(ts, i + 1, Len(ts)))

\* int(x) raises ValueError unless x is a decimal literal (the tag values of
\* the model hold digits, ':', ' ' and letters only)
int_parses(x) == x # <<>> /\ \A i \in DOMAIN x : x[i] \in Digits

is_leap(y) == (y % 4 = 0 /\ y % 100 # 0) \/ y % 400 = 0

days_in_month(y, m) ==
    IF m = 2 THEN (IF is_leap(y) THEN 29 ELSE 28)
    ELSE IF m \in {4, 6, 9, 11} THEN 30 ELSE 31

\* the argument check of datetime.datetime(year, month, day, hour, minute, second)
datetime_valid(e) ==
    /\ e[1] \in 1..9999
    /\ e[2] \in 1..12
    /\ e[3] \in 1..days_in_month(e[1], e[2])
    /\ e[4] \in 0..23
    /\ e[5] \in 0..59
    /\ e[6] \in 0..59

\* the end of exif_timestamp_to_datetime, on the list `elements`
datetime_of_elements(elements) ==
    IF Len(elements) # 6 THEN Raise("BadExifTimestampError")
    ELSE IF ~datetime_valid(elements) THEN Raise("ValueError")
    ELSE Value(DT(elements[1], elements[2], elements[3],
                  elements[4], elements[5], elements[6]))

\* elements = [int(_) for _ in pieces]: the first int() that fails raises
datetime_of_pieces(pieces) ==
    IF \E i \in DOMAIN pieces : ~int_parses(pieces[i])
    THEN Raise("ValueError")
    ELSE datetime_of_elements([i \in DOMAIN pieces |-> str_to_int(pieces[i])])

\* exif_timestamp_to_datetime
exif_timestamp_to_datetime(ts) == datetime_of_pieces(re_split(ts))

\* the tag set exifread.process_file returns: a set of <<tag name, value>>
has_tag(tags, name) == \E t \in tags : t[1] = name
tag_value(tags, name) == (CHOOSE t \in tags : t[1] = name)[2]

\* exif_creation_timestamp: [found, ts]; not found is MissingExifTimestampError
exif_creation_timestamp(tags) ==
    IF has_tag(tags, "EXIF DateTimeOriginal")
    THEN [found |-> TRUE, ts |-> tag_value(tags, "EXIF DateTimeOriginal")]
    ELSE IF has_tag(tags, "EXIF DateTimeDigitized")
    THEN [found |-> TRUE, ts |-> tag_value(tags, "EXIF DateTimeDigitized")]
    ELSE [found |-> FALSE, ts |-> <<>>]

\* exif_creation_date.  The handler of BadExifTimestampError prints `e`, a
\* local name that is bound only inside the first handler, which did not run:
\* the print raises UnboundLocalError.
bad_timestamp_handler(r) ==
    IF r.kind = "raise" /\ r.exc = "BadExifTimestampError"
    THEN Raise("UnboundLocalError")
    ELSE r

exif_creation_date(tags) ==
    IF ~exif_creation_timestamp(tags).found THEN None
    ELSE bad_timestamp_handler(
             exif_timestamp_to_datetime(exif_creation_timestamp(tags).ts))

\* file_creation_date: the modification time of the file
file_creation_date(file) == Value(file.mtime)

\* int(ts.strftime("%Y%m%d"))
yyyymmdd(ts) ==
    str_to_int(zero_pad(ts.year, 4) \o zero_pad(ts.month, 2) \o zero_pad(ts.day, 2))

\* The streams ffmpeg.probe reports are records [tags, ct, dt]: whether the
\* stream has a "tags" entry, whether that holds a creation_time ("absent",
\* "garbage" for text dateutil cannot parse, "time"), and the local datetime
\* parser.parse(...).astimezone(tz.tzlocal()) makes of it.
\* The first stream that stops the loop: one without tags (KeyError) or one
\* with a creation_time (break); 0 when the loop runs to its end.
first_stop(streams) ==
    LET stops == {i \in DOMAIN streams : ~streams[i].tags \/ streams[i].ct # "absent"}
    IN  IF stops = {} THEN 0 ELSE CHOOSE i \in stops : \A j \in stops : i <= j

\* the end of mov_creation_date: the floor on the local datetime `ts`
too_old_or(ts) == IF yyyymmdd(ts) <= 2001 THEN None ELSE Value(ts)

\* mov_creation_date after the loop stopped at stream i (0: it ran to its end
\* and dtstr is None, which parser.parse rejects)
mov_date_at(streams, i) ==
    IF i = 0 THEN Raise("TypeError")
    ELSE IF ~streams[i].tags THEN Raise("KeyError")
    ELSE IF streams[i].ct = "garbage" THEN Raise("ValueError")
    ELSE too_old_or(streams[i].dt)

\* mov_creation_date
mov_creation_date(probe) ==
    IF ~probe.ok THEN Raise("ffmpeg.Error")
    ELSE mov_date_at(probe.streams, first_stop(probe.streams))

\* the try block of creation_date, on the outcome r of exif_creation_date:
\* a date is returned, a ValueError is caught, any other exception propagates
exif_or_file_date(r, file) ==
    IF r.kind = "value" THEN r
    ELSE IF r.kind = "raise" /\ r.exc # "ValueError" THEN r
    ELSE file_creation_date(file)

\* creation_date
creation_date(path, file) ==
    IF str_endswith(str_lower(path), <<".", "m", "o", "v">>)
    THEN mov_creation_date(file.probe)
    ELSE exif_or_file_date(exif_creation_date(file.exif), file)

-----------------------------------------------------------------------------
(* The collision resolver.                                                  *)

\* os.path.exists on a filesystem of regular files F and directories D
os_path_exists(p, F, D) == p \in DOMAIN F \/ p \in D

\* os.path.isfile
os_path_isfile(p, F) == p \in DOMAIN F

\* '%s-%i%s' % (filename, dedup_index, ext), joined to dirname
dedup_path(dirname, filename, dedup_index, ext) ==
    os_path_join(dirname, filename \o <<"-">> \o int_to_str(dedup_index) \o ext)

\* the `while True` loop of resolve_duplicate
RECURSIVE dedup_loop(_, _, _, _, _, _)
dedup_loop(dirname, filename, ext, dedup_index, F, D) ==
    LET new_path == dedup_path(dirname, filename, dedup_index, ext)
    IN  IF ~os_path_exists(new_path, F, D) THEN new_path
        ELSE dedup_loop(dirname, filename, ext, dedup_index + 1, F, D)

\* resolve_duplicate that hands the candidate back as it is
resolve_duplicate_unchanged(path, F, D) == path

\* resolve_duplicate that tries index 1 only and does not look whether the
\* suffixed path exists
resolve_duplicate_once(path, F, D) ==
    IF ~os_path_exists(path, F, D) THEN path
    ELSE dedup_path(os_path_dirname(path),
                    os_path_splitext(os_path_basename(path))[1], 1,
                    os_path_splitext(os_path_basename(path))[2])

\* resolve_duplicate
resolve_duplicate(path, F, D) ==
    IF ~os_path_exists(path, F, D) THEN path
    ELSE dedup_loop(os_path_dirname(path),
                    os_path_splitext(os_path_basename(path))[1],
                    os_path_splitext(os_path_basename(path))[2], 1, F, D)

-----------------------------------------------------------------------------
(* The mover.                                                               *)

ValidExtensions ==
    {<<".", "j", "p", "g">>, <<".", "j", "p", "e", "g">>, <<".", "p", "n", "g">>,
     <<".", "d", "n", "g">>, <<".", "c", "r", "w">>, <<".", "p", "e", "f">>,
     <<".", "t", "i", "f">>, <<".", "h", "e", "i", "c">>, <<".", "m", "o", "v">>,
     <<".", "m", "p", "4">>}

\* is_valid_filename
is_valid_filename(path) == str_lower(os_path_splitext(path)[2]) \in ValidExtensions

\* dest_path: [raised, date, cand, dst]; `cand` is the path handed to
\* resolve_duplicate.  creation_date returning None makes dt.strftime raise.
jpeg_to_jpg(path) ==
    IF str_endswith(path, <<".", "j", "p", "e", "g">>)
    THEN drop_last(path, 4) \o <<"j", "p", "g">>
    ELSE path

resolved(cdate, cand, F, D) ==
    [raised |-> FALSE, date |-> cdate, cand |-> cand,
     dst |-> resolve_duplicate(cand, F, D)]

dest_path_of_date(root_folder, path, cdate, F, D) ==
    IF cdate.kind = "raise"
    THEN [raised |-> TRUE, date |-> cdate, cand |-> <<>>, dst |-> <<>>]
    ELSE IF cdate.kind = "none"
    THEN [raised |-> TRUE, date |-> Raise("AttributeError"), cand |-> <<>>,
          dst |-> <<>>]
    ELSE resolved(cdate, jpeg_to_jpg(path_from_datetime(root_folder, cdate.dt, path)),
                  F, D)

dest_path(root_folder, path, F, D) ==
    dest_path_of_date(root_folder, path, creation_date(path, F[path]), F, D)

\* os.makedirs(dirs): the directories it creates, from the top down, up to
\* the first component that is a regular file
makedirs_created(d, F) ==
    {a \in ancestors(d) \cup {d} : \A b \in ancestors(a) \cup {a} : b \notin DOMAIN F}

\* whether a regular file stands where a directory of `d` should be, which
\* makes os.makedirs or the move after it fail
makedirs_blocked(d, F) == \E a \in ancestors(d) \cup {d} : a \in DOMAIN F

\* shutil.move(src, dst) of a regular file onto a path that is no directory:
\* a rename, which replaces whatever file is at dst
shutil_move(F, src, dst) ==
    [p \in (DOMAIN F \ {src}) \cup {dst} |-> IF p = dst THEN F[src] ELSE F[p]]

\* aaefile = path[:-3] + "AAE"
aaefile_of(path) == drop_last(path, 3) \o <<"A", "A", "E">>

NoCall ==
    [path |-> <<>>, outcome |-> "none", date |-> None, cand |-> <<>>,
     dst |-> <<>>, aae |-> FALSE]

\* the record of a call that returned or raised before a destination was used
Early(path, outcome, date) ==
    [path |-> path, outcome |-> outcome, date |-> date, cand |-> <<>>,
     dst |-> <<>>, aae |-> FALSE]

\* the literal of the hardcoded exclusion
SkipLiteral == <<"2", "0", "1", "2", "-", "0", "2", "-", "2", "8">>

Call(path, outcome, dp, aae) ==
    [path |-> path, outcome |-> outcome, date |-> dp.date, cand |-> dp.cand,
     dst |-> dp.dst, aae |-> aae]

\* lines 133-135 of move_file: the sidecar, looked for after the file moved
move_sidecar(path, dp, F1, D1) ==
    IF os_path_isfile(aaefile_of(path), F1)
    THEN [files |-> shutil_move(F1, aaefile_of(path), dp.dst \o <<".", "A", "A", "E">>),
          dirs |-> D1, call |-> Call(path, "moved", dp, TRUE)]
    ELSE [files |-> F1, dirs |-> D1, call |-> Call(path, "moved", dp, FALSE)]

\* lines 120-135 of move_file, on the result dp of dest_path: the folder is
\* made, then the file is moved unless the destination holds the literal
move_to(path, dp, dirp, F, D) ==
    IF makedirs_blocked(dirp, F)
    THEN [files |-> F, dirs |-> D \cup makedirs_created(dirp, F),
          call |-> Call(path, "error", dp, FALSE)]
    ELSE IF str_find(dp.dst, SkipLiteral) > 0
    THEN [files |-> F, dirs |-> D \cup makedirs_created(dirp, F),
          call |-> Call(path, "skip", dp, FALSE)]
    ELSE move_sidecar(path, dp, shutil_move(F, path, dp.dst),
                      D \cup makedirs_created(dirp, F))

\* lines 113-114 of move_file: an exception of dest_path ends the call
move_resolved(path, dp, F, D) ==
    IF dp.raised
    THEN [files |-> F, dirs |-> D, call |-> Early(path, "error", dp.date)]
    ELSE move_to(path, dp, os_path_dirname(dp.dst), F, D)

\* move_file(root_folder, path): [files, dirs, call]
move_file(root_folder, path, F, D) ==
    IF ~os_path_exists(path, F, D)
    THEN [files |-> F, dirs |-> D, call |-> Early(path, "invalid", None)]
    ELSE IF ~is_valid_filename(path)
    THEN [files |-> F, dirs |-> D, call |-> Early(path, "invalid", None)]
    ELSE move_resolved(path, dest_path(root_folder, path, F, D), F, D)

-----------------------------------------------------------------------------
(* The content hash cache, for one target folder.  The folder is a function *)
(* from the names of its files to their contents; the cache entry of the    *)
(* folder is [set, byname]: the set of hashes and the dict name -> hash.    *)

\* HashCache._hash: the SHA-1 digest of the content, taken as collision-free
sha1_hash(data) == <<"sha1", data>>

\* HashCache._add_file with the early return taken when the file's basename
\* has an entry
add_file_skip_known(entry, path, data) ==
    IF os_path_basename(path) \in DOMAIN entry.byname THEN entry
    ELSE [set    |-> entry.set \cup {sha1_hash(data)},
          byname |-> [n \in DOMAIN entry.byname \cup {os_path_basename(path)} |->
                        IF n = os_path_basename(path) THEN sha1_hash(data)
                        ELSE entry.byname[n]]]

\* HashCache._add_file: the early return tests the full path against a dict
\* that is keyed by basename
add_file(entry, path, data) ==
    IF path \in DOMAIN entry.byname THEN entry
    ELSE [set    |-> entry.set \cup {sha1_hash(data)},
          byname |-> [n \in DOMAIN entry.byname \cup {os_path_basename(path)} |->
                        IF n = os_path_basename(path) THEN sha1_hash(data)
                        ELSE entry.byname[n]]]

\* the loop `for f in self._files_in_folder(target_folder): self._add_file(f)`
RECURSIVE add_all(_, _, _, _)
add_all(entry, target_folder, names, dir) ==
    IF names = {} THEN entry
    ELSE LET f == CHOOSE n \in names : TRUE
         IN  add_all(add_file(entry, os_path_join(target_folder, f), dir[f]),
                     target_folder, names \ {f}, dir)

\* HashCache.has_file: [entry, result] for a candidate file of content `data`
has_file(entry, target_folder, dir, data) ==
    LET updated == add_all(entry, target_folder, DOMAIN dir, dir)
    IN  [entry |-> updated, result |-> sha1_hash(data) \in updated.set]

-----------------------------------------------------------------------------
(* Bounds and inputs.                                                       *)

\* the number of move_file calls of a run
MaxMoves == 3

\* the number of steps on the hash cache and its folder
MaxSteps == 4

\* the number of different file contents of the hash cache's inputs
MaxContents == 2

Root == <<"/", "r">>

TargetFolder == <<"/", "r", "/", "2", "0", "0", "4", "/", "2", "0", "0", "4", "-", "0", "5">>

MissingPath == <<"/", "s", "/", "x", ".", "j", "p", "g">>

T2004 == DT(2004, 5, 7, 20, 16, 31)
T2012 == DT(2012, 2, 28, 10, 0, 0)
T2018 == DT(2018, 2, 2, 0, 0, 0)
T2020 == DT(2020, 3, 4, 5, 6, 7)

\* EXIF tag sets
Original(ts)  == {<<"EXIF DateTimeOriginal", ts>>}
Digitized(ts) == {<<"EXIF DateTimeDigitized", ts>>}

Ts2004 == <<"2", "0", "0", "4", ":", "0", "5", ":", "0", "7", " ", "2", "0", ":", "1", "6", ":", "3", "1">>
Ts2012 == <<"2", "0", "1", "2", ":", "0", "2", ":", "2", "8", " ", "1", "0", ":", "0", "0", ":", "0", "0">>
Ts2018 == <<"2", "0", "1", "8", ":", "0", "2", ":", "0", "2", " ", "0", "0", ":", "0", "0", ":", "0", "0">>
TsFive == <<"2", "0", "0", "4", ":", "0", "5", ":", "0", "7", " ", "2", "0", ":", "1", "6">>
TsSeven == <<"2", "0", "0", "4", ":", "0", "5", ":", "0", "7", " ", "2", "0", ":", "1", "6", ":", "3", "1", ":", "0", "0">>
TsWord == <<"2", "0", "0", "4", ":", "0", "5", ":", "0", "7", " ", "2", "0", ":", "1", "6", ":", "x", "x">>
TsFiveWord == <<"2", "0", "0", "4", ":", "0", "5", ":", "0", "7", " ", "2", "0", ":", "x", "x">>
TsMonth13 == <<"2", "0", "0", "4", ":", "1", "3", ":", "0", "7", " ", "2", "0", ":", "1", "6", ":", "3", "1">>
TsDoubleSpace == <<"2", "0", "0", "4", ":", "0", "5", ":", "0", "7", " ", " ", "2", "0", ":", "1", "6", ":", "3", "1">>

\* what ffmpeg.probe gives
ProbeFails == [ok |-> FALSE, streams |-> <<>>]
Stream(tags, ct, dt) == [tags |-> tags, ct |-> ct, dt |-> dt]
Probed(streams) == [ok |-> TRUE, streams |-> streams]

Photo(id, tags, mtime) ==
    [id |-> id, exif |-> tags, probe |-> ProbeFails, mtime |-> mtime]
Video(id, probe, mtime) ==
    [id |-> id, exif |-> {}, probe |-> probe, mtime |-> mtime]

\* The initial filesystems are the subsets of these groups of files; a group
\* is a set of <<path, file>>.
Collisions ==
    {<<<<"/", "s", "/", "a", ".", "j", "p", "g">>, Photo(1, Original(Ts2004), T2020)>>,
     <<<<"/", "t", "/", "a", ".", "J", "P", "G">>, Photo(2, {}, T2004)>>,
     <<<<"/", "s", "/", "a", ".", "A", "A", "E">>, Photo(3, {}, T2020)>>,
     <<<<"/", "r", "/", "2", "0", "0", "4", "/", "2", "0", "0", "4", "-", "0", "5", "/", "2", "0", "0", "4", "-", "0", "5", "-", "0", "7", "_", "2", "0", ".", "1", "6", ".", "3", "1", "_", "a", ".", "j", "p", "g", ".", "A", "A", "E">>,
       Photo(4, {}, T2020)>>}

LongExtensions ==
    {<<<<"/", "s", "/", "b", ".", "j", "p", "e", "g">>, Photo(5, Digitized(Ts2004), T2020)>>,
     <<<<"/", "s", "/", "b", ".", "A", "A", "E">>, Photo(6, {}, T2020)>>,
     <<<<"/", "s", "/", "h", ".", "H", "E", "I", "C">>, Photo(7, {}, T2004)>>,
     <<<<"/", "s", "/", "h", ".", "A", "A", "E">>, Photo(8, {}, T2020)>>}

HardToDate ==
    {<<<<"/", "s", "/", "c", ".", "m", "o", "v">>,
       Video(9, Probed(<<Stream(TRUE, "absent", NoDT),
                         Stream(TRUE, "time", DT(2015, 6, 1, 12, 0, 0))>>), T2020)>>,
     <<<<"/", "s", "/", "f", ".", "M", "O", "V">>, Video(10, ProbeFails, T2020)>>,
     <<<<"/", "s", "/", "d", ".", "m", "p", "4">>,
       Video(11, Probed(<<Stream(TRUE, "absent", NoDT)>>), T2018)>>,
     <<<<"/", "s", "/", "g", ".", "p", "n", "g">>, Photo(12, Original(TsFive), T2018)>>}

Skipped ==
    {<<<<"/", "s", "/", "e", ".", "j", "p", "g">>, Photo(13, Original(Ts2012), T2020)>>,
     <<<<"/", "t", "/", "e", ".", "j", "p", "g">>, Photo(14, {}, T2012)>>,
     <<<<"/", "s", "/", "e", ".", "A", "A", "E">>, Photo(15, {}, T2020)>>}

Groups == {Collisions, LongExtensions, HardToDate, Skipped}

\* the filesystem that holds the files of `entries`
Filesystem(entries) ==
    [p \in {e[1] : e \in entries} |-> (CHOOSE e \in entries : e[1] = p)[2]]

InitialFilesystems == {Filesystem(entries) : entries \in UNION {SUBSET g : g \in Groups}}

InitialDirs(F) ==
    {Root, <<"/", "s">>, <<"/", "t">>} \cup UNION {ancestors(p) : p \in DOMAIN F}

\* the filenames filename_from_datetime is applied to: an optional canonical
\* prefix, a body and an extension
NamePrefixes ==
    {<<>>, basename_from_datetime(T2004), basename_from_datetime(T2004) \o <<"_">>,
     basename_from_datetime(T2018) \o <<"_">>}

NameBodies ==
    {<<>>, <<"a">>, <<"I", "M", "G", "_", "0", "0", "0", "1">>,
     <<"s", "c", "a", "n", "-", "2", "0", "1", "7", "0", "1", "0", "1", "1", "2", "3", "0", "0", "0">>,
     <<"I", "M", "G", "1", "_", "2", "0", "1", "7", "0", "1", "0", "1", "1", "2", "3", "0", "0", "0">>}

NameExtensions ==
    {<<>>, <<".", "J", "P", "G">>, <<".", "j", "p", "g">>, <<".", "j", "p", "e", "g">>, <<".", "p", "n", "g">>}

NameInputs ==
    {os_path_join(<<"/", "s">>, pre \o body \o ext) :
        pre \in NamePrefixes, body \in NameBodies, ext \in NameExtensions}
    \ {<<"/", "s", "/">>}

\* the files creation_date is applied to
DatePaths ==
    {<<"/", "s", "/", "a", ".", "j", "p", "g">>, <<"/", "s", "/", "c", ".", "m", "o", "v">>, <<"/", "s", "/", "C", ".", "M", "O", "V">>, <<"/", "s", "/", "d", ".", "m", "p", "4">>}

DateTags ==
    {{}, Original(Ts2004), Digitized(Ts2018), Original(Ts2004) \cup Digitized(Ts2018),
     Original(TsFive), Original(TsSeven), Original(TsWord), Original(TsFiveWord),
     Original(TsMonth13), Original(TsDoubleSpace),
     Original(TsFive) \cup Digitized(Ts2018)}

DateProbes ==
    {ProbeFails, Probed(<<>>),
     Probed(<<Stream(FALSE, "absent", NoDT)>>),
     Probed(<<Stream(TRUE, "absent", NoDT)>>),
     Probed(<<Stream(TRUE, "garbage", NoDT)>>),
     Probed(<<Stream(TRUE, "time", DT(2000, 1, 1, 0, 0, 0))>>),
     Probed(<<Stream(TRUE, "time", DT(2001, 1, 1, 0, 0, 0))>>),
     Probed(<<Stream(TRUE, "time", DT(2001, 1, 2, 0, 0, 0))>>),
     Probed(<<Stream(TRUE, "time", DT(2015, 6, 1, 12, 0, 0))>>),
     Probed(<<Stream(TRUE, "absent", NoDT),
              Stream(TRUE, "time", DT(2015, 6, 1, 12, 0, 0))>>)}

DateInputs ==
    [path : DatePaths, exif : DateTags, probe : DateProbes, mtime : {T2004, T2020}]

\* the hash cache's folder: names and contents
FolderNames == {<<"a", ".", "j", "p", "g">>, <<"b", ".", "j", "p", "g">>}

Contents == 1..MaxContents

EmptyFolder == [n \in {} |-> 0]

-----------------------------------------------------------------------------
(* The state machines.  Each specification runs one part and holds the      *)
(* variables of the other parts at their idle values.                       *)

MoverIdle ==
    /\ files = EmptyFolder
    /\ dirs = {}
    /\ ncalls = 0
    /\ last = NoCall
    /\ prev = NoCall
    /\ before = [files |-> EmptyFolder, dirs |-> {}]

NameIdle ==
    /\ nameIn = [dt |-> NoDT, path |-> <<>>]
    /\ nameOut = [stage |-> 0, first |-> <<>>, second |-> <<>>]

DateIdle ==
    /\ dateIn = [path |-> <<>>, exif |-> {}, probe |-> ProbeFails, mtime |-> NoDT]
    /\ dateOut = [done |-> FALSE, out |-> None]

HashIdle ==
    /\ folder = EmptyFolder
    /\ hashes = [set |-> {}, byname |-> EmptyFolder]
    /\ seen = {}
    /\ answer = [asked |-> FALSE, content |-> 0, result |-> FALSE,
                 folder |-> EmptyFolder]
    /\ nqueries = 0

\* --- the mover: move_file called on files of the tree, one call after another
Init ==
    /\ files \in InitialFilesystems
    /\ dirs = InitialDirs(files)
    /\ ncalls = 0
    /\ last = NoCall
    /\ prev = NoCall
    /\ before = [files |-> files, dirs |-> dirs]
    /\ NameIdle /\ DateIdle /\ HashIdle

MoveFile(path) ==
    /\ ncalls < MaxMoves
    /\ files' = move_file(Root, path, files, dirs).files
    /\ dirs' = move_file(Root, path, files, dirs).dirs
    /\ last' = move_file(Root, path, files, dirs).call
    /\ prev' = last
    /\ before' = [files |-> files, dirs |-> dirs]
    /\ ncalls' = ncalls + 1
    /\ UNCHANGED <<nameVars, dateVars, hashVars>>

Next == \E path \in DOMAIN files \cup {MissingPath} : MoveFile(path)

Spec == Init /\ [][Next]_vars

\* --- the name derivation: filename_from_datetime, then again on its result
InitName ==
    /\ nameIn \in [dt : {T2004, T2018}, path : NameInputs]
    /\ nameOut = [stage |-> 0, first |-> <<>>, second |-> <<>>]
    /\ MoverIdle /\ DateIdle /\ HashIdle

Derive ==
    /\ nameOut.stage = 0
    /\ nameOut' = [nameOut EXCEPT !.stage = 1,
                      !.first = filename_from_datetime(nameIn.dt, nameIn.path)]
    /\ UNCHANGED <<nameIn, moverVars, dateVars, hashVars>>

DeriveAgain ==
    /\ nameOut.stage = 1
    /\ nameOut' = [nameOut EXCEPT !.stage = 2,
                      !.second = filename_from_datetime(nameIn.dt,
                          os_path_join(os_path_dirname(nameIn.path), nameOut.first))]
    /\ UNCHANGED <<nameIn, moverVars, dateVars, hashVars>>

NextName == Derive \/ DeriveAgain

SpecName == InitName /\ [][NextName]_vars

\* --- the timestamp resolver: creation_date on one file
InitDate ==
    /\ dateIn \in DateInputs
    /\ dateOut = [done |-> FALSE, out |-> None]
    /\ MoverIdle /\ NameIdle /\ HashIdle

ResolveDate ==
    /\ ~dateOut.done
    /\ dateOut' = [done |-> TRUE, out |-> creation_date(dateIn.path, dateIn)]
    /\ UNCHANGED <<dateIn, moverVars, nameVars, hashVars>>

NextDate == ResolveDate

SpecDate == InitDate /\ [][NextDate]_vars

\* --- the hash cache: has_file queries while the folder's files change
InitHash ==
    /\ folder \in UNION {[names -> Contents] : names \in SUBSET FolderNames}
    /\ hashes = [set |-> {}, byname |-> EmptyFolder]
    /\ seen = {}
    /\ answer = [asked |-> FALSE, content |-> 0, result |-> FALSE,
                 folder |-> EmptyFolder]
    /\ nqueries = 0
    /\ MoverIdle /\ NameIdle /\ DateIdle

AddToFolder(name, data) ==
    /\ nqueries < MaxSteps
    /\ name \notin DOMAIN folder
    /\ folder' = [n \in DOMAIN folder \cup {name} |->
                    IF n = name THEN data ELSE folder[n]]
    /\ nqueries' = nqueries + 1
    /\ UNCHANGED <<hashes, seen, answer, moverVars, nameVars, dateVars>>

ReplaceInFolder(name, data) ==
    /\ nqueries < MaxSteps
    /\ name \in DOMAIN folder
    /\ folder[name] # data
    /\ folder' = [folder EXCEPT ![name] = data]
    /\ nqueries' = nqueries + 1
    /\ UNCHANGED <<hashes, seen, answer, moverVars, nameVars, dateVars>>

RemoveFromFolder(name) ==
    /\ nqueries < MaxSteps
    /\ name \in DOMAIN folder
    /\ folder' = [n \in DOMAIN folder \ {name} |-> folder[n]]
    /\ nqueries' = nqueries + 1
    /\ UNCHANGED <<hashes, seen, answer, moverVars, nameVars, dateVars>>

HasFile(data) ==
    /\ nqueries < MaxSteps
    /\ LET r == has_file(hashes, TargetFolder, folder, data)
       IN  /\ hashes' = r.entry
           /\ answer' = [asked |-> TRUE, content |-> data, result |-> r.result,
                         folder |-> folder]
    /\ seen' = seen \cup {folder[n] : n \in DOMAIN folder}
    /\ nqueries' = nqueries + 1
    /\ UNCHANGED <<folder, moverVars, nameVars, dateVars>>

NextHash ==
    \/ \E name \in FolderNames, data \in Contents : AddToFolder(name, data)
    \/ \E name \in FolderNames, data \in Contents : ReplaceInFolder(name, data)
    \/ \E name \in FolderNames : RemoveFromFolder(name)
    \/ \E data \in Contents : HasFile(data)

SpecHash == InitHash /\ [][NextHash]_vars

-----------------------------------------------------------------------------
(* Properties.                                                              *)

\* the companion file of a media file: same basename, extension AAE
sidecar_of(path) == os_path_splitext(path)[1] \o <<".", "A", "A", "E">>

\* '<stem>-N<ext>' in the directory of cand
suffixed(cand, N) ==
    os_path_join(os_path_dirname(cand),
                 os_path_splitext(os_path_basename(cand))[1] \o <<"-">>
                     \o int_to_str(N) \o os_path_splitext(os_path_basename(cand))[2])

\* the call computed a destination
resolved_call(c) == c.outcome \in {"moved", "skip"}

\* the file sits at root/YYYY/YYYY-MM/<name starting with the canonical
\* basename> of its resolved timestamp
at_canonical(path, file) ==
    /\ creation_date(path, file).kind = "value"
    /\ os_path_dirname(path) =
           os_path_join(Root, folder_from_datetime(creation_date(path, file).dt))
    /\ str_startswith(os_path_basename(path),
                      basename_from_datetime(creation_date(path, file).dt))

has_video_extension(path) ==
    str_lower(os_path_splitext(path)[2]) \in {<<".", "m", "o", "v">>, <<".", "m", "p", "4">>}

\* some stream's creation_time tag is what the loop of mov_creation_date stops at
usable_probe(probe) ==
    /\ probe.ok
    /\ first_stop(probe.streams) # 0
    /\ probe.streams[first_stop(probe.streams)].tags
    /\ probe.streams[first_stop(probe.streams)].ct = "time"

probed_time(probe) == probe.streams[first_stop(probe.streams)].dt

\* C1. Mover idempotence: move_file on a file that already sits at its
\* canonical destination leaves the filesystem as it was (no rename, no '-N'
\* suffix, no second copy).
C1_MoverIdempotent ==
    (/\ last.outcome # "none"
     /\ last.path \in DOMAIN before.files
     /\ at_canonical(last.path, before.files[last.path]))
    => files = before.files

\* C2. Collision resolver result: in every filesystem state and for every
\* candidate path, resolve_duplicate returns a path that does not exist; the
\* candidate itself when that does not exist, and otherwise '<stem>-N<ext>' in
\* the same directory for the smallest N >= 1 whose path does not exist.  The
\* destination a move_file call used did not exist when the call started.
ResolverCandidates ==
    DOMAIN files \cup dirs \cup {MissingPath} \cup {last.cand, prev.cand}

C2_ResolverResult ==
    /\ \A cand \in ResolverCandidates :
          /\ ~os_path_exists(resolve_duplicate(cand, files, dirs), files, dirs)
          /\ ~os_path_exists(cand, files, dirs)
                => resolve_duplicate(cand, files, dirs) = cand
          /\ os_path_exists(cand, files, dirs)
                => \E N \in 1..(Cardinality(DOMAIN files) + 1) :
                      /\ resolve_duplicate(cand, files, dirs) = suffixed(cand, N)
                      /\ \A k \in 1..(N - 1) :
                            os_path_exists(suffixed(cand, k), files, dirs)
    /\ resolved_call(last)
          => ~os_path_exists(last.dst, before.files, before.dirs)

\* C2 witness: a call was given the suffix -1, and now the candidate and its
\* -1 name both exist, so that the resolver answers -2.
C2_SecondSuffix ==
    /\ last.outcome = "moved"
    /\ last.dst = suffixed(last.cand, 1)
    /\ os_path_exists(last.cand, files, dirs)
    /\ os_path_exists(suffixed(last.cand, 1), files, dirs)
    /\ resolve_duplicate(last.cand, files, dirs) = suffixed(last.cand, 2)

\* C6. Sidecar moves with its parent: when move_file relocated a media file
\* whose sidecar (same basename, extension AAE) existed next to it, the
\* sidecar is gone from its source path and stands at dst + '.AAE'.
C6_SidecarFollows ==
    (/\ last.outcome = "moved"
     /\ sidecar_of(last.path) \in DOMAIN before.files)
    => /\ sidecar_of(last.path) \notin DOMAIN files
       /\ (last.dst \o <<".", "A", "A", "E">>) \in DOMAIN files
       /\ files[last.dst \o <<".", "A", "A", "E">>] = before.files[sidecar_of(last.path)]

\* two consecutive calls on different source paths with the same resolved
\* timestamp that derived the same candidate path
SameCandidateInSequence ==
    /\ resolved_call(prev)
    /\ resolved_call(last)
    /\ prev.path # last.path
    /\ prev.date = last.date
    /\ prev.cand = last.cand

\* C8 as claimed. Distinct destinations in sequence: two consecutive calls
\* that derive the same candidate path never get equal paths from the
\* collision resolver.
C8_DistinctAsClaimed == SameCandidateInSequence => prev.dst # last.dst

\* C8 amended. The same, for calls whose destination does not hold the
\* literal 2012-02-28 after its first character: such a file is not moved,
\* so its destination stays free for the next call.
C8_DistinctDestinations ==
    (SameCandidateInSequence /\ ~(str_find(prev.dst, SkipLiteral) > 0))
    => prev.dst # last.dst

\* C8 witness: two files with one candidate were moved one after the other,
\* the second to the -1 name.
C8_TwoMovedInSequence ==
    /\ SameCandidateInSequence
    /\ prev.outcome = "moved"
    /\ last.outcome = "moved"
    /\ prev.dst = prev.cand
    /\ last.dst = suffixed(last.cand, 1)

\* C9. Video files never fall back silently: for a file with the extension
\* mov or mp4 the timestamp is the container's creation_time; without a
\* usable one the call ends in an error and nothing is moved.
C9_VideoNeverFallsBack ==
    (/\ last.outcome # "none"
     /\ last.path \in DOMAIN before.files
     /\ has_video_extension(last.path))
    => IF usable_probe(before.files[last.path].probe)
       THEN resolved_call(last)
                => last.date.dt = probed_time(before.files[last.path].probe)
       ELSE last.outcome = "error" /\ files = before.files

\* C10. No overwrite, no loss: every file that existed before a call exists
\* after it with the same content, at its old path or at a path where nothing
\* was before the call; the number of files is conserved.
C10_NoOverwriteNoLoss ==
    last.outcome # "none"
    => /\ \A p \in DOMAIN before.files :
             \E q \in DOMAIN files :
                 /\ files[q] = before.files[p]
                 /\ q = p \/ ~os_path_exists(q, before.files, before.dirs)
       /\ Cardinality(DOMAIN files) = Cardinality(DOMAIN before.files)

\* --- the name derivation (SpecName)

NameStem == os_path_splitext(os_path_basename(nameIn.path))[1]
NameExt  == os_path_splitext(os_path_basename(nameIn.path))[2]
NameBase == basename_from_datetime(nameIn.dt)
NameStripped == re_sub_keep(NameStem, Alnum)

Rule1Name == NameStem \o str_lower(NameExt)
Rule2Name == NameBase \o <<"_", "_">> \o NameStripped \o str_lower(NameExt)
Rule3Name == NameBase \o <<"_">> \o NameStem \o str_lower(NameExt)

\* C3 as claimed. Name derivation priority: (1) the filename unchanged but
\* for the lower-cased extension when the filename starts with the canonical
\* basename; else (2) base + '__' + stripped name + extension when the
\* stripped name contains '20' and twelve more digits; else (3) base + '_' +
\* name + extension; and deriving from a derived name returns it unchanged.
C3_DerivationAsClaimed ==
    /\ nameOut.stage >= 1 =>
          nameOut.first =
              IF str_startswith(os_path_basename(nameIn.path), NameBase) THEN Rule1Name
              ELSE IF re_search_20_12digits(NameStripped) THEN Rule2Name
              ELSE Rule3Name
    /\ nameOut.stage = 2 => nameOut.second = nameOut.first

\* C3 amended. (1) applies when the filename without its extension starts
\* with the canonical basename; (2) applies when, besides, the digits of the
\* extension-less filename begin with '20'; and deriving from a derived name
\* returns it unchanged when the filename has an extension.
C3_NameDerivationRules ==
    /\ nameOut.stage >= 1 =>
          nameOut.first =
              IF str_startswith(NameStem, NameBase) THEN Rule1Name
              ELSE IF /\ str_startswith(re_sub_keep(NameStem, Digits), <<"2", "0">>)
                      /\ re_search_20_12digits(NameStripped)
                   THEN Rule2Name
              ELSE Rule3Name
    /\ (nameOut.stage = 2 /\ NameExt # <<>>) => nameOut.second = nameOut.first

\* C3 witness: a name that carries the canonical prefix and an upper-case
\* extension was kept by rule (1), though rule (2) matches it too, and
\* deriving again from the result gave the result.
C3_PrefixedKept ==
    /\ nameOut.stage = 2
    /\ str_startswith(NameStem, NameBase)
    /\ filename_has_14digit(NameStem) # <<>>
    /\ NameExt # str_lower(NameExt)
    /\ nameOut.first = Rule1Name
    /\ nameOut.second = nameOut.first

\* --- the timestamp resolver (SpecDate)

on_or_before_2001_01_01(ts) ==
    \/ ts.year < 2001
    \/ ts.year = 2001 /\ ts.month = 1 /\ ts.day = 1

\* C4. Video timestamp floor: a probed creation time on or before 2001-01-01
\* resolves to null, a later one to itself.
C4_VideoTimestampFloor ==
    (/\ dateOut.done
     /\ str_endswith(str_lower(dateIn.path), <<".", "m", "o", "v">>)
     /\ usable_probe(dateIn.probe))
    => dateOut.out = IF on_or_before_2001_01_01(probed_time(dateIn.probe))
                     THEN None
                     ELSE Value(probed_time(dateIn.probe))

\* C5. Metadata fallback: for a non-video file creation_date returns the
\* datetime of a well-formed date tag (date taken before date digitized), and
\* the modification time when the tag is absent or malformed; it never fails.
C5_MetadataFallback ==
    (dateOut.done /\ ~has_video_extension(dateIn.path))
    => dateOut.out =
          IF /\ exif_creation_timestamp(dateIn.exif).found
             /\ exif_timestamp_to_datetime(
                    exif_creation_timestamp(dateIn.exif).ts).kind = "value"
          THEN exif_timestamp_to_datetime(exif_creation_timestamp(dateIn.exif).ts)
          ELSE Value(dateIn.mtime)

\* --- the hash cache (SpecHash)

InAnsweredFolder == \E n \in DOMAIN answer.folder : answer.folder[n] = answer.content

=============================================================================
